---------------------------- MODULE Spec2Model ----------------------------
(***************************************************************************)
(* lasersell-tel: a tracing Layer that normalizes events into JSON records *)
(* (src/src/layer.rs), hands them through a bounded tokio mpsc channel to  *)
(* a background shipper task (src/src/shipper.rs) which batches them and   *)
(* POSTs each batch to the ingestion endpoint.                             *)
(***************************************************************************)
EXTENDS Integers, Sequences, FiniteSets, TLC

(***************************************************************************)
(* Bounds of the model.                                                    *)
(***************************************************************************)
\* total number of on_event calls explored
MaxEvents == 3
\* channel_capacity values explored: 0..MaxCap
MaxCap == 2
\* batch_size values explored: 0..MaxBatch
MaxBatch == 2

\* flush_interval values explored (0 = Duration::ZERO, 1 = any positive period)
FlushIntervals == {0, 1}

\* application threads calling on_event
Producers == {"p1", "p2"}

(***************************************************************************)
(* JSON values (serde_json::Value).  A scalar is [k |-> kind, v |-> text]; *)
(* an object (serde_json::Map) is a function from its keys to values.      *)
(***************************************************************************)
JString(s) == [k |-> "string", v |-> s]
JNumber(s) == [k |-> "number", v |-> s]
JBool(s)   == [k |-> "bool", v |-> s]
JNull      == [k |-> "null", v |-> ""]

EmptyMap == <<>>

\* serde_json::Map::insert: overwrite on an existing key
MapInsert(m, key, val) ==
    [x \in (DOMAIN m) \cup {key} |-> IF x = key THEN val ELSE m[x]]

\* serde_json::Map::remove, the map that is left
MapRemove(m, key) == [x \in (DOMAIN m) \ {key} |-> m[x]]

\* slip: the map is replaced by other as a whole
MapExtendReplaces(m, other) == other

\* Map::extend(other): insert every entry of other, overwriting
MapExtend(m, other) ==
    [x \in (DOMAIN m) \cup (DOMAIN other) |->
        IF x \in DOMAIN other THEN other[x] ELSE m[x]]

(***************************************************************************)
(* A recorded field as the tracing framework hands it to a Visit method:   *)
(* [name, kind, val], kind being the record_* method that is called.       *)
(* val is the text of the value; for "debug" it is the {:?} rendering, and *)
(* for "f64" the text "NaN" stands for a non-finite float.                 *)
(***************************************************************************)
Fld(n, kd, x) == [name |-> n, kind |-> kd, val |-> x]

\* Value::from(value) in each record_* method of JsonVisitor
ToJson(f) ==
    CASE f.kind = "f64"   -> IF f.val = "NaN" THEN JNull ELSE JNumber(f.val)
      [] f.kind = "i64"   -> JNumber(f.val)
      [] f.kind = "u64"   -> JNumber(f.val)
      [] f.kind = "bool"  -> JBool(f.val)
      [] f.kind = "str"   -> JString(f.val)
      [] f.kind = "debug" -> JString(f.val)

\* attrs.record / values.record / event.record(&mut visitor): the Visit
\* methods are called field by field, each inserting into visitor.fields
RECURSIVE JsonVisitor(_, _)
JsonVisitor(flds, map) ==
    IF flds = <<>> THEN map
    ELSE JsonVisitor(Tail(flds), MapInsert(map, Head(flds).name, ToJson(Head(flds))))


(***************************************************************************)
(* State.                                                                  *)
(***************************************************************************)
VARIABLES
    cfg,        \* BetterStackLayerBuilder: channel_capacity, batch_size, flush_interval
    layer,      \* "builder" | "live" | "txDropped" | "released" | "buildPanicked"
    appPanic,   \* a panic has unwound into the calling application
    spans,      \* per-span extension slot: NoData or SpanData [name, fields]
    chan,       \* the mpsc channel's buffered records, oldest first
    seqOf,      \* per producer: number of on_event calls made so far
    accepted,   \* tags <<producer, seq>> of the records try_send accepted
    lastEv,     \* the event of the latest on_event call (NoEvent before any)
    lastRec,    \* the JSON object the latest on_event call built
    lastCtx,    \* the span context of the latest on_event call: its sid and the SpanData seen
    pc,         \* run_shipper: "spawned" | "select" | "drain" | "flushing" | "stopped" | "panicked"
    cont,       \* where run_shipper continues when the flush in progress returns
    batch,      \* run_shipper's batch: Vec<Value>
    tickReady,  \* interval.tick() would complete now
    calls,      \* delivery calls so far: [events, cause], in call order
    diag,       \* number of eprintln! failure lines written by flush
    snap        \* what run_shipper saw when it took the shutdown arm (NoSnap before)

vars == <<cfg, layer, appPanic, spans, chan, seqOf, accepted, lastEv, lastRec, lastCtx,
          pc, cont, batch, tickReady, calls, diag, snap>>

layerVars  == <<cfg, layer, appPanic>>
workerVars == <<pc, cont, batch, tickReady, calls, diag, snap>>
eventVars  == <<seqOf, accepted, lastEv, lastRec, lastCtx>>

NoData  == [name |-> "", fields |-> EmptyMap, present |-> FALSE]
NoEvent == [level |-> "", target |-> "", fields |-> <<>>]
NoSnap  == [taken |-> FALSE, queued |-> 0, held |-> 0, calls |-> 0, tick |-> FALSE]
NoSpan  == "none"
NoCtx   == [sid |-> NoSpan, data |-> NoData]
SpanIds == {"s1", "s2"}

\* SpanData { name, fields }
SpanData(n, f) == [name |-> n, fields |-> f, present |-> TRUE]

(***************************************************************************)
(* Event Normalizer: the record on_event builds (layer.rs 176-220).        *)
(***************************************************************************)
\* chrono_now_iso(): the wall clock's reading, formatted; its value is not
\* tracked, every reading is the text "dt"
chrono_now_iso == "dt"

\* span_json: {"name": data.name} then every span field inserted over it
SpanJson(data) == MapExtend(MapInsert(EmptyMap, "name", JString(data.name)), data.fields)

\* visitor.fields.remove("message").unwrap_or_else(|| String::new())
MessageOf(visited) ==
    IF "message" \in DOMAIN visited THEN visited["message"] ELSE JString("")

\* slip: `get` in place of `remove`, the field stays in visitor.fields
FieldsOfKept(visited) == visited

\* visitor.fields after the remove
FieldsOf(visited) == MapRemove(visited, "message")

\* the JSON object passed to try_send; data is the innermost span's
\* SpanData, or NoData when event_span / ext.get yield None
BuildRecord(ev, data) ==
    LET visited == JsonVisitor(ev.fields, EmptyMap)
        rest    == FieldsOf(visited)
        base    == [x \in {"dt", "level", "message", "target"} |->
                      CASE x = "dt"      -> JString(chrono_now_iso)
                        [] x = "level"   -> JString(ev.level)
                        [] x = "message" -> MessageOf(visited)
                        [] x = "target"  -> JString(ev.target)]
        withF   == IF rest # EmptyMap THEN MapInsert(base, "fields", rest) ELSE base
    IN  IF data.present THEN MapInsert(withF, "span", SpanJson(data)) ELSE withF

(***************************************************************************)
(* Ingress Channel: tokio::sync::mpsc::Sender::try_send.                   *)
(***************************************************************************)
\* the receiver half is gone once run_shipper has returned or panicked
RxAlive == pc \notin {"stopped", "panicked"}

\* Ok(()) exactly when the receiver is alive and a permit is free
TrySendOk == RxAlive /\ Len(chan) < cfg.channel_capacity

\* slip: no permit check, the record is queued whenever the receiver is alive
TrySendUnbounded(rec) == IF RxAlive THEN Append(chan, rec) ELSE chan

\* the channel after try_send(rec): Err(Full) and Err(Closed) leave it as it is
TrySend(rec) == IF TrySendOk THEN Append(chan, rec) ELSE chan

(***************************************************************************)
(* Layer: construction, callbacks, release.                                *)
(***************************************************************************)
Sum(f) == f["p1"] + f["p2"]

\* BetterStackLayerBuilder::build: mpsc::channel(channel_capacity) panics on a
\* capacity of 0 (tokio: "mpsc bounded channel requires buffer > 0"), before
\* the shipper is spawned; otherwise the task is spawned and the layer returned
Build ==
    /\ layer = "builder"
    /\ IF cfg.channel_capacity = 0
       THEN /\ layer' = "buildPanicked"
            /\ appPanic' = TRUE
            /\ pc' = pc
       ELSE /\ layer' = "live"
            /\ appPanic' = appPanic
            /\ pc' = "spawned"
    /\ UNCHANGED <<cfg, spans, chan, eventVars, cont, batch, tickReady, calls, diag, snap>>

\* BetterStackLayer::on_new_span: the registry has just created span id; its
\* declared name and the fields recorded at creation go into its slot
on_new_span(id, name, attrs) ==
    /\ layer = "live"
    /\ ~spans[id].present
    /\ spans' = [spans EXCEPT ![id] = SpanData(name, JsonVisitor(attrs, EmptyMap))]
    /\ UNCHANGED <<layerVars, chan, eventVars, workerVars>>

\* slip: a slot is created when the span has none
on_recordCreates(id, values) ==
    /\ layer = "live"
    /\ spans' = IF spans[id].present
                THEN [spans EXCEPT ![id].fields =
                         MapExtend(@, JsonVisitor(values, EmptyMap))]
                ELSE [spans EXCEPT ![id] = SpanData("", JsonVisitor(values, EmptyMap))]
    /\ UNCHANGED <<layerVars, chan, eventVars, workerVars>>

\* BetterStackLayer::on_record: merge the re-recorded values into the slot of
\* span id, if the span and its SpanData exist
on_record(id, values) ==
    /\ layer = "live"
    /\ spans' = IF spans[id].present
                THEN [spans EXCEPT ![id].fields =
                         MapExtend(@, JsonVisitor(values, EmptyMap))]
                ELSE spans
    /\ UNCHANGED <<layerVars, chan, eventVars, workerVars>>

\* the host registry tears span id down: its extension slot goes with it
span_closed(id) ==
    /\ layer = "live"
    /\ spans[id].present
    /\ spans' = [spans EXCEPT ![id] = NoData]
    /\ UNCHANGED <<layerVars, chan, eventVars, workerVars>>

\* BetterStackLayer::on_event called by producer p with event ev whose
\* innermost span is sid (NoSpan: ctx.event_span yields None)
on_event(p, ev, sid) ==
    /\ layer = "live"
    /\ Sum(seqOf) < MaxEvents
    /\ LET data == IF sid = NoSpan THEN NoData ELSE spans[sid]
           rec  == BuildRecord(ev, data)
           n    == seqOf[p] + 1
       IN  /\ chan' = TrySend([prod |-> p, seq |-> n, val |-> rec])
           /\ accepted' = IF TrySendOk THEN accepted \cup {<<p, n>>} ELSE accepted
           /\ seqOf' = [seqOf EXCEPT ![p] = n]
           /\ lastEv' = ev
           /\ lastRec' = rec
           /\ lastCtx' = [sid |-> sid, data |-> data]
    /\ UNCHANGED <<layerVars, spans, workerVars>>

\* releasing the layer drops its fields in declaration order: first tx (the
\* only Sender: the channel closes) ...
DropTx ==
    /\ layer = "live"
    /\ layer' = "txDropped"
    /\ UNCHANGED <<cfg, appPanic, spans, chan, eventVars, workerVars>>

\* ... then _shutdown (the oneshot Sender: the Receiver resolves)
DropShutdown ==
    /\ layer = "txDropped"
    /\ layer' = "released"
    /\ UNCHANGED <<cfg, appPanic, spans, chan, eventVars, workerVars>>

(***************************************************************************)
(* Shipper Worker: run_shipper and flush (shipper.rs).                     *)
(***************************************************************************)
\* `&mut shutdown` is ready: the oneshot Sender has been dropped
ShutdownReady == layer = "released"

\* rx.recv() is ready: a record is buffered, or every Sender is gone
RecvReady == chan # <<>> \/ layer \in {"txDropped", "released"}

\* slip: the record is put in front of the batch
PushFront(b, e) == <<e>> \o b

\* slip: the batch is overwritten by the new record
PushOverwrites(b, e) == <<e>>

\* batch.push(event)
Push(b, e) == Append(b, e)

\* slip: flush as soon as the batch holds anything
FlushDueEager(b) == Len(b) >= 1

\* slip: `>` in place of `>=`
FlushDueLate(b) == Len(b) > cfg.batch_size

\* batch.len() >= batch_size
FlushDue(b) == Len(b) >= cfg.batch_size

\* slip: `batch.clone()` in place of `batch.drain(..)`, the batch is kept
DrainedKept(b) == b

\* batch after `batch.drain(..).collect()` in flush
Drained(b) == <<>>

\* flush up to its await of send(): the batch is drained into the request
\* body; run_shipper continues at next once the response is in
Flush(b, cause, next) ==
    /\ calls' = Append(calls, [events |-> b, cause |-> cause])
    /\ batch' = Drained(b)
    /\ pc' = "flushing"
    /\ cont' = next

\* lines 17-25: the client, the batch, tokio::time::interval(flush_interval),
\* which panics on a zero period, and the first tick, which completes at once
Start ==
    /\ pc = "spawned"
    /\ pc' = IF cfg.flush_interval = 0 THEN "panicked" ELSE "select"
    /\ UNCHANGED <<layerVars, spans, chan, eventVars, cont, batch, tickReady, calls, diag, snap>>

\* select arm 1 (lines 32-33): the shutdown signal
SelectShutdown ==
    /\ pc = "select"
    /\ ShutdownReady
    /\ pc' = "drain"
    /\ snap' = [taken |-> TRUE, queued |-> Len(chan), held |-> Len(batch),
                calls |-> Len(calls), tick |-> tickReady]
    /\ UNCHANGED <<layerVars, spans, chan, eventVars, cont, batch, tickReady, calls, diag>>

\* slip: the remainder is not flushed after the try_recv loop
DrainDropsRemainder ==
    /\ pc = "drain"
    /\ IF chan # <<>>
       THEN LET b == Push(batch, Head(chan))
            IN  /\ chan' = Tail(chan)
                /\ IF FlushDue(b)
                   THEN Flush(b, "size", "drain")
                   ELSE /\ batch' = b
                        /\ UNCHANGED <<pc, cont, calls>>
       ELSE /\ chan' = chan
            /\ pc' = "stopped"
            /\ UNCHANGED <<cont, batch, calls>>
    /\ UNCHANGED <<layerVars, spans, eventVars, tickReady, diag, snap>>

\* slip: with nothing left to pull, the remainder waits for the next tick
DrainWaitsForTick ==
    /\ pc = "drain"
    /\ IF chan # <<>>
       THEN LET b == Push(batch, Head(chan))
            IN  /\ chan' = Tail(chan)
                /\ tickReady' = tickReady
                /\ IF FlushDue(b)
                   THEN Flush(b, "size", "drain")
                   ELSE /\ batch' = b
                        /\ UNCHANGED <<pc, cont, calls>>
       ELSE /\ chan' = chan
            /\ tickReady
            /\ tickReady' = FALSE
            /\ IF batch # <<>>
               THEN Flush(batch, "shutdown", "stopped")
               ELSE /\ pc' = "stopped"
                    /\ UNCHANGED <<cont, batch, calls>>
    /\ UNCHANGED <<layerVars, spans, eventVars, diag, snap>>

\* lines 34-43: one turn of the try_recv loop, or what follows the loop
Drain ==
    /\ pc = "drain"
    /\ IF chan # <<>>
       THEN LET b == Push(batch, Head(chan))
            IN  /\ chan' = Tail(chan)
                /\ IF FlushDue(b)
                   THEN Flush(b, "size", "drain")
                   ELSE /\ batch' = b
                        /\ UNCHANGED <<pc, cont, calls>>
       ELSE /\ chan' = chan
            /\ IF batch # <<>>
               THEN Flush(batch, "shutdown", "stopped")
               ELSE /\ pc' = "stopped"
                    /\ UNCHANGED <<cont, batch, calls>>
    /\ UNCHANGED <<layerVars, spans, eventVars, tickReady, diag, snap>>

\* select arm 2, Some(event) (lines 47-54)
SelectRecv ==
    /\ pc = "select"
    /\ ~ShutdownReady
    /\ chan # <<>>
    /\ LET b == Push(batch, Head(chan))
       IN  /\ chan' = Tail(chan)
           /\ IF FlushDue(b)
              THEN Flush(b, "size", "select")
              ELSE /\ batch' = b
                   /\ UNCHANGED <<pc, cont, calls>>
    /\ UNCHANGED <<layerVars, spans, eventVars, tickReady, diag, snap>>

\* select arm 2, None (lines 56-61): the channel is closed and empty
SelectClosed ==
    /\ pc = "select"
    /\ ~ShutdownReady
    /\ RecvReady
    /\ chan = <<>>
    /\ IF batch # <<>>
       THEN Flush(batch, "closed", "stopped")
       ELSE /\ pc' = "stopped"
            /\ UNCHANGED <<cont, batch, calls>>
    /\ UNCHANGED <<layerVars, spans, chan, eventVars, tickReady, diag, snap>>

\* slip: no `biased;`, the tick arm may be taken whatever else is ready
SelectTickUnbiased ==
    /\ pc = "select"
    /\ tickReady
    /\ tickReady' = FALSE
    /\ IF batch # <<>>
       THEN Flush(batch, "timer", "select")
       ELSE UNCHANGED <<pc, cont, batch, calls>>
    /\ UNCHANGED <<layerVars, spans, chan, eventVars, diag, snap>>

\* slip: the tick arm does not flush
SelectTickNoFlush ==
    /\ pc = "select"
    /\ ~ShutdownReady
    /\ ~RecvReady
    /\ tickReady
    /\ tickReady' = FALSE
    /\ UNCHANGED <<pc, cont, batch, calls>>
    /\ UNCHANGED <<layerVars, spans, chan, eventVars, diag, snap>>

\* select arm 3 (lines 66-70): the timer tick
SelectTick ==
    /\ pc = "select"
    /\ ~ShutdownReady
    /\ ~RecvReady
    /\ tickReady
    /\ tickReady' = FALSE
    /\ IF batch # <<>>
       THEN Flush(batch, "timer", "select")
       ELSE UNCHANGED <<pc, cont, batch, calls>>
    /\ UNCHANGED <<layerVars, spans, chan, eventVars, diag, snap>>

\* outcomes of client.post(..).send().await
Outcomes == {"2xx", "non2xx", "transport"}

\* slip: a failed delivery ends the task
AfterFlushFailStops(o) == IF o = "2xx" THEN cont ELSE "stopped"

\* where run_shipper goes on after flush returned with outcome o
AfterFlush(o) == cont

\* the eprintln! lines written for outcome o
DiagLines(o) == IF o = "2xx" THEN 0 ELSE 1

\* flush from the response on (lines 88-99)
FlushDone(o) ==
    /\ pc = "flushing"
    /\ pc' = AfterFlush(o)
    /\ diag' = diag + DiagLines(o)
    /\ UNCHANGED <<layerVars, spans, chan, eventVars, cont, batch, tickReady, calls, snap>>

\* the flush period elapses: the next interval.tick() is ready
TimerElapses ==
    /\ pc \in {"select", "flushing", "drain"}
    /\ ~tickReady
    /\ tickReady' = TRUE
    /\ UNCHANGED <<layerVars, spans, chan, eventVars, pc, cont, batch, calls, diag, snap>>

Worker ==
    \/ Start
    \/ SelectShutdown
    \/ Drain
    \/ SelectRecv
    \/ SelectClosed
    \/ SelectTick
    \/ \E o \in Outcomes : FlushDone(o)

(***************************************************************************)
(* The pipeline: every configuration the builder accepts within the        *)
(* bounds, events of two shapes, no span.                                  *)
(***************************************************************************)
EvHi   == [level |-> "INFO", target |-> "app", fields |-> <<Fld("message", "debug", "hi")>>]

\* the event shape the pipeline carries
PipelineEvents == {EvHi}

Init ==
    /\ cfg \in [channel_capacity : 0..MaxCap, batch_size : 0..MaxBatch,
                flush_interval : FlushIntervals]
    /\ layer = "builder"
    /\ appPanic = FALSE
    /\ spans = [s \in SpanIds |-> NoData]
    /\ chan = <<>>
    /\ seqOf = [p \in Producers |-> 0]
    /\ accepted = {}
    /\ lastEv = NoEvent
    /\ lastRec = EmptyMap
    /\ lastCtx = NoCtx
    /\ pc = "none"
    /\ cont = "none"
    /\ batch = <<>>
    /\ tickReady = FALSE
    /\ calls = <<>>
    /\ diag = 0
    /\ snap = NoSnap

Next ==
    \/ Build
    \/ \E p \in Producers, ev \in PipelineEvents : on_event(p, ev, NoSpan)
    \/ DropTx
    \/ DropShutdown
    \/ Worker
    \/ TimerElapses

Spec == Init /\ [][Next]_vars

\* the runtime keeps polling the shipper task while it can make progress,
\* and every delivery attempt returns
FairSpec == Spec /\ WF_vars(Worker)

\* ... and time passes: the flush period keeps elapsing
FairTimerSpec == Spec /\ WF_vars(Worker) /\ WF_vars(TimerElapses)

(***************************************************************************)
(* The callbacks of one built layer: spans are created, re-recorded and    *)
(* closed, and events of every shape below are normalized, with and        *)
(* without an enclosing span.                                              *)
(***************************************************************************)
\* on_event calls explored by SpecNorm
MaxNormEvents == 1

SeqsUpTo2(S) == {<<>>} \cup {<<a>> : a \in S} \cup {<<a, b>> : a \in S, b \in S}

EventFieldPool ==
    { Fld("message", "debug", "hi"), Fld("message", "i64", "42"),
      Fld("status", "i64", "500"), Fld("ratio", "f64", "NaN") }

NormEvents ==
    {[level |-> "INFO", target |-> "app", fields |-> fs] : fs \in SeqsUpTo2(EventFieldPool)}

SpanNames == {"request"}

SpanFieldPool ==
    { Fld("user_id", "u64", "42"), Fld("user_id", "u64", "7"), Fld("name", "str", "x") }

InitNorm ==
    /\ cfg = [channel_capacity |-> 1, batch_size |-> 1, flush_interval |-> 1]
    /\ layer = "live"
    /\ appPanic = FALSE
    /\ spans = [s \in SpanIds |-> NoData]
    /\ chan = <<>>
    /\ seqOf = [p \in Producers |-> 0]
    /\ accepted = {}
    /\ lastEv = NoEvent
    /\ lastRec = EmptyMap
    /\ lastCtx = NoCtx
    /\ pc = "spawned"
    /\ cont = "none"
    /\ batch = <<>>
    /\ tickReady = FALSE
    /\ calls = <<>>
    /\ diag = 0
    /\ snap = NoSnap

NextNorm ==
    \/ \E id \in SpanIds, n \in SpanNames, a \in SpanFieldPool : on_new_span(id, n, <<a>>)
    \/ \E id \in SpanIds, a \in SpanFieldPool : on_record(id, <<a>>)
    \/ \E id \in SpanIds : span_closed(id)
    \/ \E ev \in NormEvents, sid \in SpanIds \cup {NoSpan} :
          Sum(seqOf) < MaxNormEvents /\ on_event("p1", ev, sid)

SpecNorm == InitNorm /\ [][NextNorm]_vars

(***************************************************************************)
(* Properties.                                                             *)
(***************************************************************************)
RECURSIVE Flatten(_)
Flatten(cs) == IF cs = <<>> THEN <<>> ELSE Head(cs).events \o Flatten(Tail(cs))

\* every record handed to the Delivery Client so far, in delivery order
Delivered == Flatten(calls)

Tags(q) == {<<q[i].prod, q[i].seq>> : i \in DOMAIN q}

NoDup(q) == \A i, j \in DOMAIN q : i < j => <<q[i].prod, q[i].seq>> # <<q[j].prod, q[j].seq>>

Ceil(n, d) == (n + d - 1) \div d

Max(S) == CHOOSE x \in S : \A y \in S : y <= x

TimerCalls == {i \in DOMAIN calls : calls[i].cause = "timer"}

\* C1: an on_event call made while the channel holds channel_capacity records
\* is possible (it does not wait for room) and leaves the channel, the set of
\* accepted records, the worker and the application as they were: the record
\* is discarded and nothing is raised.
C1_FullChannelDrops ==
    [][ /\ (layer = "live" /\ Sum(seqOf) < MaxEvents /\ Len(chan) = cfg.channel_capacity)
              => \A p \in Producers : ENABLED on_event(p, EvHi, NoSpan)
        /\ (seqOf' # seqOf /\ Len(chan) = cfg.channel_capacity)
              => /\ chan' = chan
                 /\ Len(chan') = cfg.channel_capacity
                 /\ accepted' = accepted
                 /\ appPanic' = appPanic
                 /\ layer' = layer
                 /\ UNCHANGED workerVars ]_vars

\* a record was discarded by a live receiver's full channel, which is still full
C1_Witness ==
    /\ RxAlive
    /\ Sum(seqOf) > Cardinality(accepted)
    /\ Len(chan) = cfg.channel_capacity

\* C2: while no shutdown is signalled and the channel is open, a step of the
\* worker in RUNNING that issues a delivery call is either the timer arm
\* (the tick was ready and is consumed) or a receive that brought the batch
\* to batch_size or more.
C2_NoEarlyDelivery ==
    [][ (Len(calls') > Len(calls) /\ pc = "select" /\ layer = "live")
          => \/ tickReady /\ ~tickReady' /\ chan' = chan
             \/ /\ chan # <<>>
                /\ chan' = Tail(chan)
                /\ Len(batch) + 1 >= cfg.batch_size ]_vars

\* both kinds of delivery were made in RUNNING, with a batch_size above 1
C2_Witness ==
    /\ cfg.batch_size >= 2
    /\ layer = "live"
    /\ \E i \in DOMAIN calls : calls[i].cause = "timer" /\ Len(calls[i].events) < cfg.batch_size
    /\ \E i \in DOMAIN calls : calls[i].cause = "size"

\* the run is over and every accepted record was processed: N >= batch_size >= 1
C3_Case ==
    /\ pc = "stopped"
    /\ cfg.batch_size >= 1
    /\ Cardinality(accepted) >= cfg.batch_size
    /\ Len(Delivered) = Cardinality(accepted)

\* C3 as stated: N >= batch_size records accepted and all processed until the
\* worker stops give exactly ceil(N / batch_size) delivery calls.
C3_Original ==
    C3_Case => Len(calls) = Ceil(Cardinality(accepted), cfg.batch_size)

\* C3 amended: such a run gives at least ceil(N / batch_size) delivery calls,
\* and exactly that many when no call was made by the timer arm.
C3_Amended ==
    C3_Case => /\ Len(calls) >= Ceil(Cardinality(accepted), cfg.batch_size)
               /\ TimerCalls = {} => Len(calls) = Ceil(Cardinality(accepted), cfg.batch_size)

\* three records or more, batch_size 2, no timer flush: two calls
C3_Witness ==
    /\ C3_Case
    /\ cfg.batch_size = 2
    /\ Cardinality(accepted) >= 3
    /\ TimerCalls = {}
    /\ Len(calls) = 2

\* C4: in the concatenation of all delivery calls, in call order, the records
\* of each producer appear in the order that producer enqueued them.
C4_ProducerOrder ==
    \A i, j \in DOMAIN Delivered :
        (i < j /\ Delivered[i].prod = Delivered[j].prod) => Delivered[i].seq < Delivered[j].seq

\* two producers interleaved over at least two calls, one batch holding several records
C4_Witness ==
    /\ Len(calls) >= 2
    /\ \E i \in DOMAIN calls : Len(calls[i].events) >= 2
    /\ \E i, j, l \in DOMAIN Delivered :
          /\ i < j /\ j < l
          /\ Delivered[i].prod = Delivered[l].prod
          /\ Delivered[j].prod # Delivered[i].prod

\* C5: a worker that took the shutdown arm with an empty batch and K records
\* buffered has, once STOPPED, issued ceil(K / batch_size) delivery calls
\* since then (batch_size >= 1), and none when K = 0.
C5_DrainCalls ==
    (pc = "stopped" /\ snap.taken /\ snap.held = 0)
      => /\ cfg.batch_size >= 1
              => Len(calls) - snap.calls = Ceil(snap.queued, cfg.batch_size)
         /\ snap.queued = 0 => Len(calls) = snap.calls

\* a drain of two buffered records, with a batch_size that leaves a remainder or not
C5_Witness ==
    /\ pc = "stopped"
    /\ snap.taken
    /\ snap.held = 0
    /\ snap.queued >= 2
    /\ cfg.batch_size >= 1
    /\ Len(calls) > snap.calls

\* C6: the step that issues a delivery call leaves the batch empty; while the
\* call is in progress and when it returns, with any outcome, the batch, the
\* channel and the list of calls are left alone; and no record is ever in two
\* delivery calls, or in a call and still in the batch or the channel.
C6_FlushDiscards ==
    [][ /\ Len(calls') > Len(calls) => batch' = <<>>
        /\ (pc = "flushing" /\ pc' # "flushing")
              => batch = <<>> /\ batch' = <<>> /\ chan' = chan /\ calls' = calls
        /\ NoDup(Flatten(calls') \o batch' \o chan') ]_vars

\* deliveries failed and the worker went on to make further calls
C6_Witness ==
    /\ diag >= 2
    /\ Len(calls) >= 3
    /\ pc = "select"
    /\ batch = <<>>

\* C7: when a delivery fails (a diagnostic line is written), the worker goes
\* on where the flush was called from, RUNNING staying RUNNING, and nothing
\* but the diagnostic count differs from a successful delivery: batch,
\* channel, calls and timer are as they were.
C7_FailureContinues ==
    [][ (pc = "flushing" /\ diag' > diag)
          => /\ pc' = cont
             /\ cont = "select" => pc' = "select"
             /\ diag' = diag + 1
             /\ UNCHANGED <<batch, chan, calls, tickReady, cont, snap, layer, appPanic>> ]_vars

\* every call so far failed, and records received after a failure were
\* delivered in a later call while the worker is still RUNNING
C7_Witness ==
    /\ pc = "select"
    /\ Len(calls) >= 2
    /\ diag = Len(calls)
    /\ batch # <<>>

\* C8: no operation of the public surface panics into the application.
C8_NoPanic == ~appPanic

\* every accepted record has been handed to the Delivery Client
AllDelivered == Tags(Delivered) = accepted

\* C9: once the layer is released the worker reaches STOPPED with the
\* channel and the batch empty and every accepted record delivered.
C9_ReleaseDrains ==
    (layer = "released") ~> (pc = "stopped" /\ chan = <<>> /\ batch = <<>> /\ AllDelivered)

\* index of the last field named message in the event
MessageIdx(ev) == {i \in DOMAIN ev.fields : ev.fields[i].name = "message"}

\* C10: the record built by on_event has message = the value recorded last
\* under the name message, or "" when there is none; its fields object never
\* holds the key message, and is present exactly when the event has a field
\* of another name.
C10_MessageExtracted ==
    lastEv # NoEvent =>
        /\ "message" \in DOMAIN lastRec
        /\ lastRec["message"] =
              IF MessageIdx(lastEv) = {} THEN JString("")
              ELSE ToJson(lastEv.fields[Max(MessageIdx(lastEv))])
        /\ "fields" \in DOMAIN lastRec => "message" \notin DOMAIN lastRec["fields"]
        /\ "fields" \in DOMAIN lastRec
              <=> \E i \in DOMAIN lastEv.fields : lastEv.fields[i].name # "message"

\* an event with a message field and another field was normalized
C10_Witness ==
    /\ lastEv # NoEvent
    /\ MessageIdx(lastEv) # {}
    /\ "fields" \in DOMAIN lastRec
    /\ DOMAIN lastRec["fields"] = {"status"}

\* C11: a record built while the innermost span has an entry carries a span
\* object whose name is the span's declared name and which holds every
\* accumulated span field under its own key with its recorded value.
C11_SpanObject ==
    (lastEv # NoEvent /\ lastCtx.data.present) =>
        /\ "span" \in DOMAIN lastRec
        /\ lastRec["span"]["name"] = JString(lastCtx.data.name)
        /\ \A key \in DOMAIN lastCtx.data.fields :
              /\ key \in DOMAIN lastRec["span"]
              /\ lastRec["span"][key] = lastCtx.data.fields[key]

\* C12: build never returns a layer whose worker is unable to deliver any
\* batch: whenever a layer was returned, its worker has not died of the
\* configuration it was given.
C12_BuiltWorkerDelivers ==
    layer \in {"live", "txDropped", "released"} => pc # "panicked"

\* C13: every delivery call carries at least one and at most batch_size
\* records, for every batch_size the builder accepts.
C13_CallSize ==
    \A i \in DOMAIN calls :
        /\ Len(calls[i].events) >= 1
        /\ Len(calls[i].events) <= cfg.batch_size

C14_SelectPriority ==
    [][ (pc = "select" /\ (pc' # pc \/ batch' # batch \/ (tickReady /\ ~tickReady')))
          => /\ layer = "released"
                  => pc' = "drain" /\ UNCHANGED <<chan, batch, calls, tickReady>>
             /\ (layer # "released" /\ chan # <<>>)
                  => chan' = Tail(chan) /\ tickReady' = tickReady
             /\ (tickReady /\ ~tickReady')
                  => layer = "live" /\ chan = <<>> ]_vars

\* the shutdown arm was taken while a record was queued and the tick was ready
C14_Witness ==
    /\ snap.taken
    /\ snap.queued >= 1
    /\ snap.tick

\* C15: a callback that changes the slot of one span leaves every other
\* span's slot as it was; an on_record on an existing slot keeps the name,
\* keeps every key it does not name with its value, and sets the key it
\* names to the value just recorded; an on_new_span fills an empty slot with
\* the declared name and the fields recorded at creation.
C15_RecordMerges ==
    [][ \A id \in SpanIds :
          spans'[id] # spans[id] =>
            /\ \A o \in SpanIds \ {id} : spans'[o] = spans[o]
            /\ (spans[id].present /\ spans'[id].present) =>
                  /\ spans'[id].name = spans[id].name
                  /\ \A key \in DOMAIN spans[id].fields : key \in DOMAIN spans'[id].fields
                  /\ \E a \in SpanFieldPool :
                        /\ a.name \in DOMAIN spans'[id].fields
                        /\ spans'[id].fields[a.name] = ToJson(a)
                        /\ \A key \in DOMAIN spans'[id].fields :
                              key # a.name => /\ key \in DOMAIN spans[id].fields
                                              /\ spans'[id].fields[key] = spans[id].fields[key]
            /\ (~spans[id].present /\ spans'[id].present) =>
                  \E n \in SpanNames, a \in SpanFieldPool :
                        /\ spans'[id].name = n
                        /\ DOMAIN spans'[id].fields = {a.name}
                        /\ spans'[id].fields[a.name] = ToJson(a) ]_vars

\* a span holds a key recorded after its creation beside another key, with
\* the later of the two user_id values, while another span exists
C15_Witness ==
    \E id \in SpanIds :
        /\ spans[id].present
        /\ DOMAIN spans[id].fields = {"user_id", "name"}
        /\ spans[id].fields["user_id"] = JNumber("7")
        /\ \E o \in SpanIds \ {id} : spans[o].present

\* C16: on_record against a span id without an entry cannot change the
\* Span State Store; an on_event whose enclosing span has no entry raises
\* nothing, builds one record without the span key, and hands that one
\* record to the channel (queued when the channel has room).
C16_AbsentSpan ==
    [][ /\ \A id \in SpanIds : ~spans[id].present =>
              \A a \in SpanFieldPool : ~ENABLED (on_record(id, <<a>>) /\ spans' # spans)
        /\ (seqOf' # seqOf /\ lastCtx'.sid # NoSpan /\ ~lastCtx'.data.present) =>
              /\ "span" \notin DOMAIN lastRec'
              /\ appPanic' = appPanic
              /\ spans' = spans
              /\ Len(chan') = Len(chan) + (IF TrySendOk THEN 1 ELSE 0)
              /\ TrySendOk => chan'[Len(chan')].val = lastRec' ]_vars

\* an event inside a span that has no entry was normalized and queued
C16_Witness ==
    /\ lastEv # NoEvent
    /\ lastCtx.sid \in SpanIds
    /\ ~lastCtx.data.present
    /\ chan # <<>>
    /\ chan[Len(chan)].val = lastRec

\* C17: in DRAINING the worker always has a step to take without waiting
\* for a record or for the timer; once the shutdown arm was taken the
\* channel only shrinks, so at most the records queued at that moment are
\* pulled, and no tick is consumed; and DRAINING leads to STOPPED.
C17_DrainTerminates ==
    /\ [](pc = "drain" => ENABLED Drain)
    /\ [][snap.taken => /\ Len(chan') <= Len(chan)
                        /\ Len(chan) <= snap.queued
                        /\ tickReady => tickReady']_vars
    /\ (pc = "drain") ~> (pc = "stopped")

\* a drain that began with records both queued and held has ended
C17_Witness ==
    /\ pc = "stopped"
    /\ snap.taken
    /\ snap.queued >= 1
    /\ snap.held >= 1
    /\ chan = <<>>

\* C19: with the worker and the timer scheduled fairly and every delivery
\* attempt returning, each record the worker holds in its batch is eventually
\* in a delivery call: a record leaves the batch only into a delivery call,
\* and a batch that holds records is eventually emptied.
C19_BatchedIsDelivered ==
    /\ [][Tags(batch) \ Tags(batch') \subseteq Tags(Flatten(calls'))]_vars
    /\ (batch # <<>>) ~> (batch = <<>>)

\* a batch below batch_size was delivered by the timer while the layer lives
C19_Witness ==
    /\ layer = "live"
    /\ pc = "select"
    /\ \E i \in DOMAIN calls :
          /\ calls[i].cause = "timer"
          /\ Len(calls[i].events) < cfg.batch_size
    /\ Tags(Delivered) = accepted

\* C20: while the worker task has not died, the records in the delivery
\* calls, in the batch and in the channel are, without repetition, exactly
\* the records whose enqueue succeeded; a worker that has returned leaves
\* nothing behind in the channel or the batch it drops.
C20_Conservation ==
    pc # "panicked" =>
        /\ NoDup(Delivered \o batch \o chan)
        /\ Tags(Delivered \o batch \o chan) = accepted
        /\ pc = "stopped" => chan = <<>> /\ batch = <<>>

\* accepted records are in all three places at once
C20_Witness ==
    /\ pc # "panicked"
    /\ chan # <<>>
    /\ batch # <<>>
    /\ calls # <<>>
    /\ Cardinality(accepted) = Len(Delivered) + Len(batch) + Len(chan)

=============================================================================
